---- MODULE Spec2Model ----
(***************************************************************************)
(* Model of sylphie_database's MigrationManager                            *)
(* (sylphie_database/src/migrations.rs).                                   *)
(*                                                                         *)
(* Several tasks call MigrationManager::execute_migration concurrently.    *)
(* Every `.await` of the source is one step of the calling task.  The      *)
(* connection, the transaction and the asynchronous mutex are modelled by  *)
(* their contract: statements of a transaction act on a private view that  *)
(* is published by commit and discarded when the transaction is dropped.   *)
(***************************************************************************)
EXTENDS Integers, Sequences, FiniteSets, TLC

\* ------------------------------------------------------------------ bounds
NumProcs == 2
MaxCalls == 2
MaxFaults == 1

Procs == 1..NumProcs
NoProc == 0

\* ------------------------------------------------- static migration data
MigrationScriptData(from, to, file, body) ==
    [from |-> from, to |-> to, script_name |-> <<"migrations", file>>, script_data |-> body]

MigrationData(id, name, transient, target, scripts) ==
    [migration_id |-> id, migration_set_name |-> name, is_transient |-> transient,
     target_version |-> target, scripts |-> scripts]

\* The `&'static MigrationData` values handed to execute_migration, keyed by
\* the name of the static: the key stands for the address of the static.
Migrations ==
    ("ALPHA" :> MigrationData("a", "alpha", FALSE, 2,
          << MigrationScriptData(0, 1, "a_create.sql", "a_create"),
             MigrationScriptData(1, 2, "a_addcol.sql", "a_addcol") >>)) @@
    ("ALPHA_NEXT" :> MigrationData("a", "alpha_next", FALSE, 3,
          << MigrationScriptData(0, 1, "a_create.sql", "a_create"),
             MigrationScriptData(1, 2, "a_addcol.sql", "a_addcol"),
             MigrationScriptData(2, 3, "a_index.sql", "a_index") >>)) @@
    ("ALPHA_TRANSIENT" :> MigrationData("a", "alpha_transient", TRUE, 1,
          << MigrationScriptData(0, 1, "t_create.sql", "t_create") >>)) @@
    ("BETA_GAP" :> MigrationData("b", "beta_gap", FALSE, 3,
          << MigrationScriptData(0, 1, "b_create.sql", "b_create"),
             MigrationScriptData(2, 3, "b_index.sql", "b_index") >>)) @@
    ("BETA_CYCLE" :> MigrationData("b", "beta_cycle", FALSE, 2,
          << MigrationScriptData(2, 0, "b_reset.sql", "b_reset"),
             MigrationScriptData(0, 1, "b_create.sql", "b_create"),
             MigrationScriptData(1, 2, "b_addcol.sql", "b_addcol") >>))

MigrationRefs == DOMAIN Migrations
Ids == {Migrations[k].migration_id : k \in MigrationRefs}
Bodies ==
    UNION {{Migrations[k].scripts[j].script_data : j \in 1..Len(Migrations[k].scripts)} :
              k \in MigrationRefs}

\* ------------------------------------------------------------ SQL helpers
TableName(is_transient) ==
    IF is_transient THEN "transient.sylphie_db_migrations_tracking"
                    ELSE "sylphie_db_migrations_tracking"

Tables == {TableName(t) : t \in BOOLEAN}

create_migrations_table_sql(is_transient) ==
    [stmt |-> "CREATE TABLE IF NOT EXISTS", table |-> TableName(is_transient)]

query_migrations_table_sql(is_transient) ==
    [stmt |-> "SELECT current_version", table |-> TableName(is_transient)]

replace_migrations_table_sql_unqualified(is_transient) ==
    [stmt |-> "REPLACE INTO", table |-> TableName(FALSE)]

replace_migrations_table_sql(is_transient) ==
    [stmt |-> "REPLACE INTO", table |-> TableName(is_transient)]

\* ------------------------------------------------- values of the program
None == <<>>
Some(x) == <<x>>
unwrap_or(opt, default) == IF opt = None THEN default ELSE opt[1]

\* Result<()> before the call has returned, Ok(()), and the two ways an Err
\* is made: by a failed operation of the connection (`?`), and by `bail!`.
NoResult == [kind |-> "pending", fmt |-> "", strs |-> <<>>, nums |-> <<>>]
Ok == [kind |-> "Ok", fmt |-> "", strs |-> <<>>, nums |-> <<>>]
DriverError(op) == [kind |-> "driver", fmt |-> op, strs |-> <<>>, nums |-> <<>>]
Bail(fmt, strs, nums) == [kind |-> "bail", fmt |-> fmt, strs |-> strs, nums |-> nums]

\* A log record: level, format string and the formatted arguments.
LogRecord(level, fmt, strs, ptrs, nums) ==
    [level |-> level, fmt |-> fmt, strs |-> strs, ptrs |-> ptrs, nums |-> nums]

\* `x as *const _ as usize`: the address of what the reference x points to.
\* A `&'static MigrationData` points to the static; a `&&'static MigrationData`
\* obtained from HashMap::get points to the map's value slot for that key.
AddrOfStatic(ref) == [region |-> "static", cell |-> ref]
AddrOfMapSlot(key) == [region |-> "heap", cell |-> key]

\* script.script_name.rsplit('/').next().unwrap()
LastPathComponent(path) == path[Len(path)]

\* A statement issued on the connection, as the connection sees it.
DbOp(op, target, id, ver, ok) ==
    [op |-> op, target |-> target, id |-> id, ver |-> ver, ok |-> ok]

\* --------------------------------------------- connection and transaction
\* The database: which tracking tables exist, their rows (an Option per
\* migration_name, the column being the primary key), and how often each
\* script body has been applied to the schema.
EmptyDb ==
    [exists |-> [t \in Tables |-> FALSE],
     rows |-> [t \in Tables |-> [i \in Ids |-> None]],
     schema |-> [b \in Bodies |-> 0]]

DbCreateTable(d, sql) == [d EXCEPT !.exists[sql.table] = TRUE]
DbHasTable(d, sql) == d.exists[sql.table]
DbQueryRow(d, sql, id) == d.rows[sql.table][id]
\* A write that is not keyed by migration_name: every id gets the version.
DbReplaceEveryRow(d, sql, id, ver) ==
    [d EXCEPT !.rows[sql.table] = [i \in Ids |-> Some(ver)]]

\* UPDATE instead of REPLACE INTO: only an existing row is changed.
DbUpdate(d, sql, id, ver) ==
    IF d.rows[sql.table][id] = None THEN d
    ELSE [d EXCEPT !.rows[sql.table][id] = Some(ver)]
DbReplace(d, sql, id, ver) == [d EXCEPT !.rows[sql.table][id] = Some(ver)]
DbExecuteBatch(d, body) == [d EXCEPT !.schema[body] = @ + 1]

\* ------------------------------------------------------------------ state
VARIABLES
    pc,                        \* where each task is in execute_migration
    migration,                 \* the `migration` argument of each task's call
    connection,                \* whether the task holds a DbConnection
    lock,                      \* owner of MigrationManager.data (AsyncMutex)
    tables_created,            \* MigrationManagerState.tables_created
    repeat_transaction_watch,  \* MigrationManagerState.repeat_transaction_watch
    db,                        \* the committed database
    tx_owner,                  \* the task whose exclusive transaction is open
    tx_view,                   \* the database as seen inside that transaction
    start_version,             \* local of execute_migration
    current_version,           \* local of execute_migration
    script_i,                  \* position of the `for script in` loop (1-based)
    result,                    \* what each task's last call returned
    log,                       \* records logged by each task's current call
    ops,                       \* statements each task's current call issued
    db_at_begin,               \* the database when the call's transaction opened
    calls,                     \* calls made so far (bounded by MaxCalls)
    faults,                    \* failed operations and cancellations so far
    pool_size,                 \* connections the Database pool can hand out
    kv,                        \* the rest of the database: a keyed-storage value
    tx_type                    \* TransactionType of the last transaction opened

vars == <<pc, migration, connection, lock, tables_created, repeat_transaction_watch,
          db, tx_owner, tx_view, start_version, current_version, script_i,
          result, log, ops, db_at_begin, calls, faults, pool_size, kv, tx_type>>

env_vars == <<pool_size, kv, tx_type>>
mgr_vars == <<tables_created, repeat_transaction_watch>>
db_vars == <<db, tx_owner, tx_view>>
local_vars == <<start_version, current_version, script_i>>

Init ==
    /\ pc = [p \in Procs |-> "idle"]
    /\ migration = [p \in Procs |-> "ALPHA"]
    /\ connection = [p \in Procs |-> FALSE]
    /\ lock = NoProc
    /\ tables_created = FALSE
    /\ repeat_transaction_watch = [i \in Ids |-> None]
    /\ db = EmptyDb
    /\ tx_owner = NoProc
    /\ tx_view = EmptyDb
    /\ start_version = [p \in Procs |-> 0]
    /\ current_version = [p \in Procs |-> 0]
    /\ script_i = [p \in Procs |-> 1]
    /\ result = [p \in Procs |-> NoResult]
    /\ log = [p \in Procs |-> <<>>]
    /\ ops = [p \in Procs |-> <<>>]
    /\ db_at_begin = [p \in Procs |-> EmptyDb]
    /\ calls = 0
    /\ faults = 0
    /\ pool_size \in 1..NumProcs
    /\ kv = "empty"
    /\ tx_type = "None"

\* An awaited operation of the connection either succeeds or fails.
Outcomes == IF faults < MaxFaults THEN {TRUE, FALSE} ELSE {TRUE}
Count(ok) == faults' = IF ok THEN faults ELSE faults + 1

Set(p) == Migrations[migration[p]]
Issue(p, op) == ops' = [ops EXCEPT ![p] = Append(@, op)]
Emit(p, rec) == log' = [log EXCEPT ![p] = Append(@, rec)]
Goto(p, label) == pc' = [pc EXCEPT ![p] = label]

\* `?` on an Err, or `bail!`: the call's Result is the error and the
\* function's locals are dropped; a dropped Transaction is rolled back.
Raise(p, err) ==
    /\ result' = [result EXCEPT ![p] = err]
    /\ pc' = [pc EXCEPT ![p] = "return"]
    /\ tx_owner' = IF tx_owner = p THEN NoProc ELSE tx_owner
    /\ tx_view' = IF tx_owner = p THEN db ELSE tx_view
    /\ db' = db

\* ---------------------------------------------------------------- actions
\* A task calls MigrationManager::execute_migration(&self, migration).
Call(p) ==
    /\ pc[p] = "idle"
    /\ calls < MaxCalls
    /\ calls' = calls + 1
    /\ \E k \in MigrationRefs : migration' = [migration EXCEPT ![p] = k]
    /\ Goto(p, "connect")
    /\ UNCHANGED <<connection, lock, mgr_vars, db_vars, local_vars, result, log, ops,
                   db_at_begin, faults, env_vars>>

\* let mut connection = self.pool.connect().await?;
Connect(p) ==
    /\ pc[p] = "connect"
    /\ \E ok \in Outcomes :
          /\ Count(ok)
          /\ IF ok
                THEN /\ Cardinality({q \in Procs : connection[q]}) < pool_size
                     /\ connection' = [connection EXCEPT ![p] = TRUE]
                     /\ Goto(p, "lock")
                     /\ UNCHANGED <<result, db_vars>>
                ELSE /\ Raise(p, DriverError("connect"))
                     /\ UNCHANGED connection
    /\ UNCHANGED <<migration, lock, mgr_vars, local_vars, log, ops, db_at_begin, calls, env_vars>>

\* The lock is taken although another task holds it.
LockUnguarded(p) ==
    /\ pc[p] = "lock"
    /\ lock' = p
    /\ Goto(p, IF tables_created THEN "conflict_check" ELSE "create_persistent")
    /\ UNCHANGED <<migration, connection, mgr_vars, db_vars, local_vars, result, log,
                   ops, db_at_begin, calls, env_vars, faults>>

\* self.data.lock().await, then the test of create_migrations_table.
Lock(p) ==
    /\ pc[p] = "lock"
    /\ lock = NoProc
    /\ lock' = p
    /\ Goto(p, IF tables_created THEN "conflict_check" ELSE "create_persistent")
    /\ UNCHANGED <<migration, connection, mgr_vars, db_vars, local_vars, result, log,
                   ops, db_at_begin, calls, env_vars, faults>>

\* tables_created is set as soon as the first table has been created.
CreatePersistentSetsFlag(p) ==
    LET sql == create_migrations_table_sql(FALSE) IN
    /\ pc[p] = "create_persistent"
    /\ \E ok \in Outcomes :
          /\ Count(ok)
          /\ Issue(p, DbOp("create", sql.table, "", 0, ok))
          /\ IF ok
                THEN /\ db' = DbCreateTable(db, sql)
                     /\ tx_view' = DbCreateTable(tx_view, sql)
                     /\ tables_created' = TRUE
                     /\ Goto(p, "create_transient")
                     /\ UNCHANGED <<result, tx_owner>>
                ELSE /\ Raise(p, DriverError("execute_batch"))
                     /\ UNCHANGED tables_created
    /\ UNCHANGED <<migration, connection, lock, repeat_transaction_watch, local_vars,
                   log, db_at_begin, calls, env_vars>>

\* conn.execute_batch(create_migrations_table_sql(false)).await?;
CreatePersistent(p) ==
    LET sql == create_migrations_table_sql(FALSE) IN
    /\ pc[p] = "create_persistent"
    /\ \E ok \in Outcomes :
          /\ Count(ok)
          /\ Issue(p, DbOp("create", sql.table, "", 0, ok))
          /\ IF ok
                THEN /\ db' = DbCreateTable(db, sql)
                     /\ tx_view' = DbCreateTable(tx_view, sql)
                     /\ Goto(p, "create_transient")
                     /\ UNCHANGED <<result, tx_owner>>
                ELSE Raise(p, DriverError("execute_batch"))
    /\ UNCHANGED <<migration, connection, lock, mgr_vars, local_vars, log,
                   db_at_begin, calls, env_vars>>

\* conn.execute_batch(create_migrations_table_sql(true)).await?;
\* self.tables_created = true;
CreateTransient(p) ==
    LET sql == create_migrations_table_sql(TRUE) IN
    /\ pc[p] = "create_transient"
    /\ \E ok \in Outcomes :
          /\ Count(ok)
          /\ Issue(p, DbOp("create", sql.table, "", 0, ok))
          /\ IF ok
                THEN /\ db' = DbCreateTable(db, sql)
                     /\ tx_view' = DbCreateTable(tx_view, sql)
                     /\ tables_created' = TRUE
                     /\ Goto(p, "conflict_check")
                     /\ UNCHANGED <<result, tx_owner>>
                ELSE /\ Raise(p, DriverError("execute_batch"))
                     /\ UNCHANGED tables_created
    /\ UNCHANGED <<migration, connection, lock, repeat_transaction_watch, local_vars,
                   log, db_at_begin, calls, env_vars>>

\* The warning of lines 103-118, if any, and the trace! of line 120.
WatchRecords(p) ==
    LET m == Set(p)
        entry == repeat_transaction_watch[m.migration_id]
        data_off == AddrOfMapSlot(m.migration_id)
        migration_off == AddrOfStatic(migration[p])
        warning ==
            IF entry = None THEN <<>>
            ELSE IF data_off = migration_off
            THEN << LogRecord("warn", "Migration set {} has been executed more than once!",
                              <<m.migration_id>>, <<>>, <<>>) >>
            ELSE << LogRecord("warn", "Migration set id {} conflicts! ({} at 0x{:x}, {} at 0x{:x})",
                              <<m.migration_id, m.migration_set_name,
                                Migrations[entry[1]].migration_set_name>>,
                              <<migration_off, data_off>>, <<>>) >>
    IN warning \o << LogRecord("trace", "Running migration set {}",
                               <<m.migration_set_name>>, <<>>, <<>>) >>

\* A conflicting entry makes the call fail.
ConflictCheckAbort(p) ==
    LET entry == repeat_transaction_watch[Set(p).migration_id] IN
    /\ pc[p] = "conflict_check"
    /\ log' = [log EXCEPT ![p] = @ \o WatchRecords(p)]
    /\ IF entry # None /\ entry # Some(migration[p])
          THEN Raise(p, Bail("Migration set id conflicts.", <<>>, <<>>))
          ELSE Goto(p, "begin") /\ UNCHANGED <<result, db_vars>>
    /\ UNCHANGED <<migration, connection, lock, mgr_vars, local_vars, ops,
                   db_at_begin, calls, env_vars, faults>>

\* if let Some(data) = self.repeat_transaction_watch.get(..) { warn!(..) }; trace!(..)
ConflictCheck(p) ==
    /\ pc[p] = "conflict_check"
    /\ log' = [log EXCEPT ![p] = @ \o WatchRecords(p)]
    /\ Goto(p, "begin")
    /\ UNCHANGED <<migration, connection, lock, mgr_vars, db_vars, local_vars, result,
                   ops, db_at_begin, calls, env_vars, faults>>

\* The transaction is opened with TransactionType::Deferred.
BeginDeferred(p) ==
    /\ pc[p] = "begin"
    /\ \E ok \in Outcomes :
          /\ Count(ok)
          /\ Issue(p, DbOp("transaction_with_type", "Deferred", "", 0, ok))
          /\ IF ok
                THEN /\ tx_owner = NoProc
                     /\ tx_owner' = p
                     /\ tx_type' = "Deferred"
                     /\ tx_view' = db
                     /\ db_at_begin' = [db_at_begin EXCEPT ![p] = db]
                     /\ Goto(p, "query")
                     /\ UNCHANGED <<result, db>>
                ELSE /\ Raise(p, DriverError("transaction_with_type"))
                     /\ UNCHANGED <<db_at_begin, tx_type>>
    /\ UNCHANGED <<migration, connection, lock, mgr_vars, local_vars, log, calls,
                   pool_size, kv>>

\* let mut transaction = conn.transaction_with_type(TransactionType::Exclusive).await?;
Begin(p) ==
    /\ pc[p] = "begin"
    /\ \E ok \in Outcomes :
          /\ Count(ok)
          /\ Issue(p, DbOp("transaction_with_type", "Exclusive", "", 0, ok))
          /\ IF ok
                THEN /\ tx_owner = NoProc
                     /\ tx_owner' = p
                     /\ tx_type' = "Exclusive"
                     /\ tx_view' = db
                     /\ db_at_begin' = [db_at_begin EXCEPT ![p] = db]
                     /\ Goto(p, "query")
                     /\ UNCHANGED <<result, db>>
                ELSE /\ Raise(p, DriverError("transaction_with_type"))
                     /\ UNCHANGED <<db_at_begin, tx_type>>
    /\ UNCHANGED <<migration, connection, lock, mgr_vars, local_vars, log, calls,
                   pool_size, kv>>

\* The walk starts from the target of the set last recorded for the id, when
\* there is one, instead of the stored row.
QueryUsesWatch(p) ==
    LET m == Set(p)
        sql == query_migrations_table_sql(m.is_transient)
        entry == repeat_transaction_watch[m.migration_id]
        row == unwrap_or(DbQueryRow(tx_view, sql, m.migration_id), 0)
        version == IF entry = None THEN row ELSE Migrations[entry[1]].target_version
    IN
    /\ pc[p] = "query"
    /\ \E ok \in IF DbHasTable(tx_view, sql) THEN Outcomes ELSE {FALSE} :
          /\ Count(ok)
          /\ Issue(p, DbOp("query_row", sql.table, m.migration_id, 0, ok))
          /\ IF ok
                THEN /\ start_version' = [start_version EXCEPT ![p] = version]
                     /\ current_version' = [current_version EXCEPT ![p] = version]
                     /\ Goto(p, "for_script")
                     /\ UNCHANGED <<result, db_vars>>
                ELSE /\ Raise(p, DriverError("query_row"))
                     /\ UNCHANGED <<start_version, current_version>>
    /\ UNCHANGED <<migration, connection, lock, mgr_vars, script_i, log,
                   db_at_begin, calls, env_vars>>

\* The stored row is not used: the walk always starts from version 0.
QueryIgnoresRow(p) ==
    LET m == Set(p)
        sql == query_migrations_table_sql(m.is_transient)
    IN
    /\ pc[p] = "query"
    /\ \E ok \in IF DbHasTable(tx_view, sql) THEN Outcomes ELSE {FALSE} :
          /\ Count(ok)
          /\ Issue(p, DbOp("query_row", sql.table, m.migration_id, 0, ok))
          /\ IF ok
                THEN /\ start_version' = [start_version EXCEPT ![p] = 0]
                     /\ current_version' = [current_version EXCEPT ![p] = 0]
                     /\ Goto(p, "for_script")
                     /\ UNCHANGED <<result, db_vars>>
                ELSE /\ Raise(p, DriverError("query_row"))
                     /\ UNCHANGED <<start_version, current_version>>
    /\ UNCHANGED <<migration, connection, lock, mgr_vars, script_i, log,
                   db_at_begin, calls, env_vars>>

\* let start_version: u32 = transaction.query_row(..).await?.unwrap_or(0);
\* let mut current_version = start_version;
Query(p) ==
    LET m == Set(p)
        sql == query_migrations_table_sql(m.is_transient)
    IN
    /\ pc[p] = "query"
    /\ \E ok \in IF DbHasTable(tx_view, sql) THEN Outcomes ELSE {FALSE} :
          /\ Count(ok)
          /\ Issue(p, DbOp("query_row", sql.table, m.migration_id, 0, ok))
          /\ IF ok
                THEN /\ start_version' = [start_version EXCEPT ![p] =
                            unwrap_or(DbQueryRow(tx_view, sql, m.migration_id), 0)]
                     /\ current_version' = [current_version EXCEPT ![p] =
                            unwrap_or(DbQueryRow(tx_view, sql, m.migration_id), 0)]
                     /\ Goto(p, "for_script")
                     /\ UNCHANGED <<result, db_vars>>
                ELSE /\ Raise(p, DriverError("query_row"))
                     /\ UNCHANGED <<start_version, current_version>>
    /\ UNCHANGED <<migration, connection, lock, mgr_vars, script_i, log,
                   db_at_begin, calls, env_vars>>

\* Every script is run, whatever its `from`.
ForScriptUnguarded(p) ==
    LET m == Set(p) IN
    /\ pc[p] = "for_script"
    /\ IF script_i[p] > Len(m.scripts)
          THEN Goto(p, "check_version") /\ UNCHANGED log
          ELSE /\ Emit(p, LogRecord("info", "Running migration {}/{}",
                          <<m.migration_set_name,
                            LastPathComponent(m.scripts[script_i[p]].script_name)>>,
                          <<>>, <<>>))
               /\ Goto(p, "execute_batch")
    /\ UNCHANGED <<migration, connection, lock, mgr_vars, db_vars, local_vars, result,
                   ops, db_at_begin, calls, env_vars, faults>>

\* for script in migration.scripts { if current_version == script.from { info!(..)
ForScript(p) ==
    LET m == Set(p) IN
    /\ pc[p] = "for_script"
    /\ IF script_i[p] > Len(m.scripts)
          THEN Goto(p, "check_version") /\ UNCHANGED <<log, script_i>>
          ELSE IF current_version[p] = m.scripts[script_i[p]].from
          THEN /\ Emit(p, LogRecord("info", "Running migration {}/{}",
                          <<m.migration_set_name,
                            LastPathComponent(m.scripts[script_i[p]].script_name)>>,
                          <<>>, <<>>))
               /\ Goto(p, "execute_batch")
               /\ UNCHANGED script_i
          ELSE /\ script_i' = [script_i EXCEPT ![p] = @ + 1]
               /\ UNCHANGED <<pc, log>>
    /\ UNCHANGED <<migration, connection, lock, mgr_vars, db_vars, start_version,
                   current_version, result, ops, db_at_begin, calls, env_vars, faults>>

\* A failed script is passed over and the loop goes on.
ExecuteBatchIgnoreError(p) ==
    LET script == Set(p).scripts[script_i[p]] IN
    /\ pc[p] = "execute_batch"
    /\ \E ok \in Outcomes :
          /\ Count(ok)
          /\ Issue(p, DbOp("execute_batch", script.script_data, "", 0, ok))
          /\ IF ok
                THEN /\ tx_view' = DbExecuteBatch(tx_view, script.script_data)
                     /\ Goto(p, "execute")
                     /\ UNCHANGED script_i
                ELSE /\ script_i' = [script_i EXCEPT ![p] = @ + 1]
                     /\ Goto(p, "for_script")
                     /\ UNCHANGED tx_view
    /\ UNCHANGED <<migration, connection, lock, mgr_vars, db, tx_owner, start_version,
                   current_version, result, log, db_at_begin, calls, env_vars>>

\* transaction.execute_batch(script.script_data).await?;
ExecuteBatch(p) ==
    LET script == Set(p).scripts[script_i[p]] IN
    /\ pc[p] = "execute_batch"
    /\ \E ok \in Outcomes :
          /\ Count(ok)
          /\ Issue(p, DbOp("execute_batch", script.script_data, "", 0, ok))
          /\ IF ok
                THEN /\ tx_view' = DbExecuteBatch(tx_view, script.script_data)
                     /\ Goto(p, "execute")
                     /\ UNCHANGED <<result, db, tx_owner>>
                ELSE Raise(p, DriverError("execute_batch"))
    /\ UNCHANGED <<migration, connection, lock, mgr_vars, local_vars, log,
                   db_at_begin, calls, env_vars>>

\* After a script has run the search starts again from the first script.
ExecuteReplaceRestarts(p) ==
    LET m == Set(p)
        script == m.scripts[script_i[p]]
        sql == replace_migrations_table_sql(m.is_transient)
    IN
    /\ pc[p] = "execute"
    /\ \E ok \in Outcomes :
          /\ Count(ok)
          /\ Issue(p, DbOp("execute", sql.table, m.migration_id, script.to, ok))
          /\ IF ok
                THEN /\ tx_view' = DbReplace(tx_view, sql, m.migration_id, script.to)
                     /\ current_version' = [current_version EXCEPT ![p] = script.to]
                     /\ script_i' = [script_i EXCEPT ![p] = 1]
                     /\ Goto(p, "for_script")
                     /\ UNCHANGED <<db, result, tx_owner>>
                ELSE /\ Raise(p, DriverError("execute"))
                     /\ UNCHANGED <<current_version, script_i>>
    /\ UNCHANGED <<migration, connection, lock, mgr_vars, start_version, log,
                   db_at_begin, calls, env_vars>>

\* The running version is not advanced after a script has run.
ExecuteReplaceKeepsVersion(p) ==
    LET m == Set(p)
        script == m.scripts[script_i[p]]
        sql == replace_migrations_table_sql(m.is_transient)
    IN
    /\ pc[p] = "execute"
    /\ \E ok \in Outcomes :
          /\ Count(ok)
          /\ Issue(p, DbOp("execute", sql.table, m.migration_id, script.to, ok))
          /\ IF ok
                THEN /\ tx_view' = DbReplace(tx_view, sql, m.migration_id, script.to)
                     /\ script_i' = [script_i EXCEPT ![p] = @ + 1]
                     /\ Goto(p, "for_script")
                     /\ UNCHANGED <<db, result, tx_owner>>
                ELSE /\ Raise(p, DriverError("execute"))
                     /\ UNCHANGED script_i
    /\ UNCHANGED <<migration, connection, lock, mgr_vars, start_version,
                   current_version, log, db_at_begin, calls, env_vars>>

\* The tracking row is written on the connection, outside the transaction.
ExecuteReplaceAutocommit(p) ==
    LET m == Set(p)
        script == m.scripts[script_i[p]]
        sql == replace_migrations_table_sql(m.is_transient)
    IN
    /\ pc[p] = "execute"
    /\ \E ok \in Outcomes :
          /\ Count(ok)
          /\ Issue(p, DbOp("execute", sql.table, m.migration_id, script.to, ok))
          /\ IF ok
                THEN /\ tx_view' = DbReplace(tx_view, sql, m.migration_id, script.to)
                     /\ db' = DbReplace(db, sql, m.migration_id, script.to)
                     /\ current_version' = [current_version EXCEPT ![p] = script.to]
                     /\ script_i' = [script_i EXCEPT ![p] = @ + 1]
                     /\ Goto(p, "for_script")
                     /\ UNCHANGED <<result, tx_owner>>
                ELSE /\ Raise(p, DriverError("execute"))
                     /\ UNCHANGED <<current_version, script_i>>
    /\ UNCHANGED <<migration, connection, lock, mgr_vars, start_version, log,
                   db_at_begin, calls, env_vars>>

\* transaction.execute(replace_migrations_table_sql(..), (migration_id, script.to)).await?;
\* current_version = script.to;
ExecuteReplace(p) ==
    LET m == Set(p)
        script == m.scripts[script_i[p]]
        sql == replace_migrations_table_sql(m.is_transient)
    IN
    /\ pc[p] = "execute"
    /\ \E ok \in Outcomes :
          /\ Count(ok)
          /\ Issue(p, DbOp("execute", sql.table, m.migration_id, script.to, ok))
          /\ IF ok
                THEN /\ tx_view' = DbReplace(tx_view, sql, m.migration_id, script.to)
                     /\ current_version' = [current_version EXCEPT ![p] = script.to]
                     /\ script_i' = [script_i EXCEPT ![p] = @ + 1]
                     /\ Goto(p, "for_script")
                     /\ UNCHANGED <<result, db, tx_owner>>
                ELSE /\ Raise(p, DriverError("execute"))
                     /\ UNCHANGED <<current_version, script_i>>
    /\ UNCHANGED <<migration, connection, lock, mgr_vars, start_version, log,
                   db_at_begin, calls, env_vars>>

\* The error! record of lines 144-148.
MismatchRecord(p) ==
    LogRecord("error", "Could not apply migration {} to version {}. (got from {} to {})",
              <<Set(p).migration_set_name>>, <<>>,
              <<Set(p).target_version, start_version[p], current_version[p]>>)

\* The transaction is committed before the version is compared.
CheckVersionCommitFirst(p) ==
    /\ pc[p] = "check_version"
    /\ IF Set(p).target_version # current_version[p]
          THEN /\ Emit(p, MismatchRecord(p))
               /\ result' = [result EXCEPT ![p] = Bail("Could not successfully apply migration.", <<>>, <<>>)]
               /\ Goto(p, "return")
               /\ db' = tx_view
               /\ tx_owner' = NoProc
               /\ UNCHANGED tx_view
          ELSE Goto(p, "commit") /\ UNCHANGED <<result, log, db_vars>>
    /\ UNCHANGED <<migration, connection, lock, mgr_vars, local_vars, ops,
                   db_at_begin, calls, env_vars, faults>>

\* The version reached is not compared with the target.
CheckVersionSkipped(p) ==
    /\ pc[p] = "check_version"
    /\ Goto(p, "commit")
    /\ UNCHANGED <<migration, connection, lock, mgr_vars, db_vars, local_vars, result,
                   log, ops, db_at_begin, calls, env_vars, faults>>

\* The error record reports the start version as the version reached.
CheckVersionLogsStart(p) ==
    /\ pc[p] = "check_version"
    /\ IF Set(p).target_version # current_version[p]
          THEN /\ Emit(p, LogRecord("error",
                          "Could not apply migration {} to version {}. (got from {} to {})",
                          <<Set(p).migration_set_name>>, <<>>,
                          <<Set(p).target_version, start_version[p], start_version[p]>>))
               /\ Raise(p, Bail("Could not successfully apply migration.", <<>>, <<>>))
          ELSE Goto(p, "commit") /\ UNCHANGED <<result, log, db_vars>>
    /\ UNCHANGED <<migration, connection, lock, mgr_vars, local_vars, ops,
                   db_at_begin, calls, env_vars, faults>>

\* if migration.target_version != current_version { error!(..); bail!(..) }
CheckVersion(p) ==
    /\ pc[p] = "check_version"
    /\ IF Set(p).target_version # current_version[p]
          THEN /\ Emit(p, MismatchRecord(p))
               /\ Raise(p, Bail("Could not successfully apply migration.", <<>>, <<>>))
          ELSE Goto(p, "commit") /\ UNCHANGED <<result, log, db_vars>>
    /\ UNCHANGED <<migration, connection, lock, mgr_vars, local_vars, ops,
                   db_at_begin, calls, env_vars, faults>>

\* The watch entry is inserted whether or not the commit succeeded.
CommitRecordsOnFailure(p) ==
    /\ pc[p] = "commit"
    /\ \E ok \in Outcomes :
          /\ Count(ok)
          /\ Issue(p, DbOp("commit", "", "", 0, ok))
          /\ repeat_transaction_watch' =
                [repeat_transaction_watch EXCEPT
                    ![Set(p).migration_id] = Some(migration[p])]
          /\ IF ok
                THEN /\ db' = tx_view
                     /\ tx_owner' = NoProc
                     /\ UNCHANGED tx_view
                     /\ result' = [result EXCEPT ![p] = Ok]
                     /\ Goto(p, "return")
                ELSE Raise(p, DriverError("commit"))
    /\ UNCHANGED <<migration, connection, lock, tables_created, local_vars, log,
                   db_at_begin, calls, env_vars>>

\* transaction.commit().await?;
\* self.repeat_transaction_watch.insert(migration.migration_id, migration); Ok(())
Commit(p) ==
    /\ pc[p] = "commit"
    /\ \E ok \in Outcomes :
          /\ Count(ok)
          /\ Issue(p, DbOp("commit", "", "", 0, ok))
          /\ IF ok
                THEN /\ db' = tx_view
                     /\ tx_owner' = NoProc
                     /\ UNCHANGED tx_view
                     /\ repeat_transaction_watch' =
                           [repeat_transaction_watch EXCEPT
                               ![Set(p).migration_id] = Some(migration[p])]
                     /\ result' = [result EXCEPT ![p] = Ok]
                     /\ Goto(p, "return")
                ELSE /\ Raise(p, DriverError("commit"))
                     /\ UNCHANGED repeat_transaction_watch
    /\ UNCHANGED <<migration, connection, lock, tables_created, local_vars, log,
                   db_at_begin, calls, env_vars>>

\* The lock is released only when the call returns Ok.
ReturnKeepsLockOnError(p) ==
    /\ pc[p] = "return"
    /\ lock' = IF lock = p /\ result[p] = Ok THEN NoProc ELSE lock
    /\ connection' = [connection EXCEPT ![p] = FALSE]
    /\ Goto(p, "idle")
    /\ migration' = [migration EXCEPT ![p] = "ALPHA"]
    /\ result' = [result EXCEPT ![p] = NoResult]
    /\ log' = [log EXCEPT ![p] = <<>>]
    /\ ops' = [ops EXCEPT ![p] = <<>>]
    /\ start_version' = [start_version EXCEPT ![p] = 0]
    /\ current_version' = [current_version EXCEPT ![p] = 0]
    /\ script_i' = [script_i EXCEPT ![p] = 1]
    /\ db_at_begin' = [db_at_begin EXCEPT ![p] = EmptyDb]
    /\ UNCHANGED <<mgr_vars, db_vars, calls, env_vars, faults>>

\* The call returns: the MutexGuard and the DbConnection are dropped, and the
\* call's frame (argument, locals, Result) is gone.
Return(p) ==
    /\ pc[p] = "return"
    /\ lock' = IF lock = p THEN NoProc ELSE lock
    /\ connection' = [connection EXCEPT ![p] = FALSE]
    /\ Goto(p, "idle")
    /\ migration' = [migration EXCEPT ![p] = "ALPHA"]
    /\ result' = [result EXCEPT ![p] = NoResult]
    /\ log' = [log EXCEPT ![p] = <<>>]
    /\ ops' = [ops EXCEPT ![p] = <<>>]
    /\ start_version' = [start_version EXCEPT ![p] = 0]
    /\ current_version' = [current_version EXCEPT ![p] = 0]
    /\ script_i' = [script_i EXCEPT ![p] = 1]
    /\ db_at_begin' = [db_at_begin EXCEPT ![p] = EmptyDb]
    /\ UNCHANGED <<mgr_vars, db_vars, calls, env_vars, faults>>

\* The states in which a call is suspended at an `.await`.
Suspended == {"connect", "lock", "create_persistent", "create_transient", "begin",
              "query", "execute_batch", "execute", "commit"}

\* The caller drops the future of execute_migration at a suspension point:
\* its locals are dropped (the Transaction rolls back, the MutexGuard
\* unlocks, the DbConnection goes back to the pool) and nothing is returned.
Cancel(p) ==
    /\ pc[p] \in Suspended
    /\ faults < MaxFaults
    /\ faults' = faults + 1
    /\ tx_owner' = IF tx_owner = p THEN NoProc ELSE tx_owner
    /\ tx_view' = IF tx_owner = p THEN db ELSE tx_view
    /\ lock' = IF lock = p THEN NoProc ELSE lock
    /\ connection' = [connection EXCEPT ![p] = FALSE]
    /\ Goto(p, "idle")
    /\ migration' = [migration EXCEPT ![p] = "ALPHA"]
    /\ result' = [result EXCEPT ![p] = NoResult]
    /\ log' = [log EXCEPT ![p] = <<>>]
    /\ ops' = [ops EXCEPT ![p] = <<>>]
    /\ start_version' = [start_version EXCEPT ![p] = 0]
    /\ current_version' = [current_version EXCEPT ![p] = 0]
    /\ script_i' = [script_i EXCEPT ![p] = 1]
    /\ db_at_begin' = [db_at_begin EXCEPT ![p] = EmptyDb]
    /\ UNCHANGED <<mgr_vars, db, calls, env_vars>>

\* A writer outside the manager (a keyed-storage set or delete, another
\* connection or process) commits a write of its own.  An open exclusive
\* transaction keeps every other writer out.
ForeignWrite ==
    /\ ~(tx_owner # NoProc /\ tx_type = "Exclusive")
    /\ kv' = IF kv = "empty" THEN "set" ELSE "empty"
    /\ UNCHANGED <<pc, migration, connection, lock, mgr_vars, db_vars, local_vars,
                   result, log, ops, db_at_begin, calls, faults, pool_size, tx_type>>

Step(p) ==
    \/ Connect(p)
    \/ Lock(p)
    \/ CreatePersistent(p)
    \/ CreateTransient(p)
    \/ ConflictCheck(p)
    \/ Begin(p)
    \/ Query(p)
    \/ ForScript(p)
    \/ ExecuteBatch(p)
    \/ ExecuteReplace(p)
    \/ CheckVersion(p)
    \/ Commit(p)
    \/ Return(p)

Next ==
    \/ \E p \in Procs : Call(p) \/ Step(p) \/ Cancel(p)
    \/ ForeignWrite

Spec == Init /\ [][Next]_vars

\* Every operation a call awaits eventually returns, so a call that can take
\* a step eventually takes one; the asynchronous mutex and the connection
\* pool are fair, so a task that could again and again take the lock, or a
\* connection, eventually gets it.  Callers need not call, nor cancel.
Fairness ==
    \A p \in Procs :
        /\ WF_vars(Step(p))
        /\ SF_vars(Lock(p))
        /\ SF_vars(Connect(p))

FairSpec == Spec /\ Fairness

\* ------------------------------------------------- vocabulary of the claims
InSeq(x, seq) == \E i \in DOMAIN seq : seq[i] = x
Issued(p, name) == {i \in DOMAIN ops[p] : ops[p][i].op = name}
Succeeded(p, name) == \E i \in Issued(p, name) : ops[p][i].ok
Began(p) == Succeeded(p, "transaction_with_type")
Queried(p) == Succeeded(p, "query_row")
WalkDone(p) == Queried(p) /\ script_i[p] > Len(Set(p).scripts)
OwnTable(p) == IF Set(p).is_transient THEN "transient.sylphie_db_migrations_tracking"
                                      ELSE "sylphie_db_migrations_tracking"
OtherTable(p) == IF Set(p).is_transient THEN "sylphie_db_migrations_tracking"
                                        ELSE "transient.sylphie_db_migrations_tracking"
\* The version a reader of database d finds stored for the set of p's call.
Stored(d, p) == unwrap_or(d.rows[OwnTable(p)][Set(p).migration_id], 0)
Critical == {"create_persistent", "create_transient", "conflict_check", "begin", "query",
             "for_script", "execute_batch", "execute", "check_version", "commit"}
BeforeInsert == Critical \ {"create_persistent", "create_transient", "conflict_check"}
ScriptOps(p) == SelectSeq(ops[p], LAMBDA o : o.op \in {"execute_batch", "execute"})

\* The statements the walk of spec section 4.1 step e issues from version cur.
RECURSIVE ExpectedOps(_, _, _, _)
ExpectedOps(m, table, i, cur) ==
    IF i > Len(m.scripts) THEN <<>>
    ELSE IF m.scripts[i].from = cur
    THEN << DbOp("execute_batch", m.scripts[i].script_data, "", 0, TRUE),
            DbOp("execute", table, m.migration_id, m.scripts[i].to, TRUE) >>
         \o ExpectedOps(m, table, i + 1, m.scripts[i].to)
    ELSE ExpectedOps(m, table, i + 1, cur)

\* ------------------------------------------------------------------ claims
\* C1: all-or-nothing per call.  From the moment a call's transaction is open
\* until the call returns, the committed database (what any other reader
\* sees) is the database as it was when the transaction opened, except after
\* a commit that makes the call return Ok, when the stored version of the
\* call's set is the version the call reached, its target.
C1_AllOrNothing ==
    \A p \in Procs :
        Began(p) =>
            \/ db = db_at_begin[p]
            \/ /\ pc[p] = "return"
               /\ result[p] = Ok
               /\ Stored(db, p) = Set(p).target_version
               /\ Stored(db, p) = current_version[p]

\* C1 witness: a call has executed a script and written a tracking row in its
\* transaction, and has not committed.
C1_Witness ==
    \E p \in Procs :
        /\ tx_owner = p
        /\ pc[p] = "for_script"
        /\ Stored(tx_view, p) # Stored(db, p)

\* C2: an incomplete chain aborts.  When a call returns after a walk that
\* ended at a version other than target_version, it returns the bail! error,
\* it issued no commit, and the committed database is what it was when the
\* transaction opened.
C2_IncompleteChainAborts ==
    \A p \in Procs :
        (pc[p] = "return" /\ WalkDone(p) /\ current_version[p] # Set(p).target_version) =>
            /\ result[p].kind = "bail"
            /\ Issued(p, "commit") = {}
            /\ db = db_at_begin[p]

\* C2 witness: a call returned the mismatch error after executing a script.
C2_Witness ==
    \E p \in Procs :
        /\ pc[p] = "return"
        /\ result[p].kind = "bail"
        /\ Succeeded(p, "execute_batch")
        /\ current_version[p] # start_version[p]

\* C3: complete apply.  When a call returns Ok, the committed stored version
\* of its set, in its scope, is target_version, and the script statements it
\* issued are exactly, in declaration order, the body of each script whose
\* `from` equalled the running version, each followed by the tracking write
\* of its `to`.
C3_CompleteApply ==
    \A p \in Procs :
        (pc[p] = "return" /\ result[p] = Ok) =>
            /\ Stored(db, p) = Set(p).target_version
            /\ ScriptOps(p) =
                  ExpectedOps(Set(p), OwnTable(p), 1, Stored(db_at_begin[p], p))

\* C3 witness: the fresh apply of spec section 8.1: empty scope, scripts
\* (0->1), (1->2), target 2, both scripts run, stored version 2.
C3_Witness ==
    \E p \in Procs :
        /\ pc[p] = "return"
        /\ result[p] = Ok
        /\ migration[p] = "ALPHA"
        /\ start_version[p] = 0
        /\ db.rows["sylphie_db_migrations_tracking"]["a"] = Some(2)
        /\ db.schema["a_create"] = 1
        /\ db.schema["a_addcol"] = 1

\* C4 as claimed: idempotent re-run for every migration set.  When the
\* stored version of a call's set equals target_version as its transaction
\* opens, the call executes no script body, and if none of its database
\* operations fails it returns Ok with the database unchanged.
C4_IdempotentRerunEverySet ==
    \A p \in Procs :
        (Began(p) /\ Stored(db_at_begin[p], p) = Set(p).target_version) =>
            /\ Issued(p, "execute_batch") = {}
            /\ (pc[p] = "return" /\ \A i \in DOMAIN ops[p] : ops[p][i].ok) =>
                  (result[p] = Ok /\ db = db_at_begin[p])

NoScriptFromTarget(m) ==
    \A j \in 1..Len(m.scripts) : m.scripts[j].from # m.target_version

\* C4 amended: idempotent re-run for every migration set none of whose
\* scripts has `from` equal to target_version.  When the stored version of
\* such a set equals target_version as the call's transaction opens, the
\* call executes no script body and writes no tracking row, the database is
\* unchanged, and the call returns Ok unless one of its database operations
\* fails.
C4_IdempotentRerun ==
    \A p \in Procs :
        (/\ Began(p)
         /\ Stored(db_at_begin[p], p) = Set(p).target_version
         /\ NoScriptFromTarget(Set(p))) =>
            /\ ScriptOps(p) = <<>>
            /\ db = db_at_begin[p]
            /\ tx_owner = p => tx_view = db_at_begin[p]
            /\ pc[p] = "return" =>
                  \/ result[p] = Ok
                  \/ result[p].kind = "driver" /\ ~ops[p][Len(ops[p])].ok

\* C4 witness: a set that reached its target before is run again and
\* returns Ok.
C4_Witness ==
    \E p \in Procs :
        /\ pc[p] = "return"
        /\ result[p] = Ok
        /\ migration[p] = "ALPHA"
        /\ repeat_transaction_watch["a"] = Some("ALPHA")
        /\ Stored(db_at_begin[p], p) = 2
        /\ NoScriptFromTarget(Set(p))

\* C5: serialization.  At most one call is inside the critical section, the
\* call inside it holds the lock, and while a call is inside it no other
\* call has issued any statement of its own (table creation, transaction
\* open, read, script, tracking write or commit) that it has not yet
\* finished with by releasing the lock.
C5_Serialization ==
    \A p \in Procs :
        pc[p] \in Critical =>
            /\ lock = p
            /\ \A q \in Procs \ {p} : pc[q] \notin Critical /\ ops[q] = <<>>
            /\ tx_owner \in {NoProc, p}

\* C5 witness: a call is inside its transaction while a second call, for a
\* different id, holds a connection and waits for the lock.
C5_Witness ==
    \E p, q \in Procs :
        /\ p # q
        /\ tx_owner = p
        /\ pc[p] = "execute"
        /\ pc[q] = "lock"
        /\ connection[q]
        /\ Set(p).migration_id # Set(q).migration_id

\* C6: a script failure aborts the whole call.  A failed script body or a
\* failed tracking write is the last statement its call issues: the call
\* has returned that error, it issued no commit, no script body was issued
\* twice, and the committed database is what it was when the transaction
\* opened.
C6_ScriptFailureAborts ==
    \A p \in Procs :
        \A i \in Issued(p, "execute_batch") \cup Issued(p, "execute") :
            ~ops[p][i].ok =>
                /\ i = Len(ops[p])
                /\ pc[p] = "return"
                /\ result[p] = DriverError(ops[p][i].op)
                /\ Issued(p, "commit") = {}
                /\ \A j, k \in Issued(p, "execute_batch") :
                      ops[p][j].target = ops[p][k].target => j = k
                /\ db = db_at_begin[p]
                /\ tx_owner # p

\* C6 witness: the second script of a set fails after the first was executed
\* and its tracking row written.
C6_Witness ==
    \E p \in Procs :
        /\ pc[p] = "return"
        /\ result[p] = DriverError("execute_batch")
        /\ Succeeded(p, "execute")
        /\ ~ops[p][Len(ops[p])].ok
        /\ ops[p][Len(ops[p])].op = "execute_batch"

\* C7: scope isolation.  A call reads the stored version from, and writes
\* tracking rows to, the tracking table of its set's scope only: neither its
\* transaction nor its commit changes a row of the other scope's table, so a
\* persistent and a transient set with the same id are tracked
\* independently.
C7_ScopeIsolation ==
    \A p \in Procs :
        Began(p) =>
            /\ db.rows[OtherTable(p)] = db_at_begin[p].rows[OtherTable(p)]
            /\ tx_owner = p => tx_view.rows[OtherTable(p)] = db_at_begin[p].rows[OtherTable(p)]
            /\ Queried(p) => start_version[p] = Stored(db_at_begin[p], p)
            /\ \A i \in Issued(p, "query_row") \cup Issued(p, "execute") :
                  ops[p][i].target = OwnTable(p)

\* C7 witness: the transient set with id "a" has been applied while the
\* persistent set with the same id is stored at another version.
C7_Witness ==
    \E p \in Procs :
        /\ pc[p] = "return"
        /\ result[p] = Ok
        /\ migration[p] = "ALPHA_TRANSIENT"
        /\ db.rows["transient.sylphie_db_migrations_tracking"]["a"] = Some(1)
        /\ db.rows["sylphie_db_migrations_tracking"]["a"] = Some(2)

RepeatWarning(p) ==
    LogRecord("warn", "Migration set {} has been executed more than once!",
              <<Set(p).migration_id>>, <<>>, <<>>)
IsConflictWarning(rec, p, other) ==
    /\ rec.level = "warn"
    /\ rec.fmt = "Migration set id {} conflicts! ({} at 0x{:x}, {} at 0x{:x})"
    /\ rec.strs = <<Set(p).migration_id, Set(p).migration_set_name,
                    Migrations[other].migration_set_name>>
Warnings(p) == SelectSeq(log[p], LAMBDA r : r.level = "warn")

\* C8 as claimed: repeat detection by identity.  When the last_applied entry
\* for the id of a call's set is the very set object the call was given, the
\* call has logged the "executed more than once" warning, and no conflict
\* warning, by the time it opens its transaction.
C8_RepeatDetectedByIdentity ==
    \A p \in Procs :
        (/\ pc[p] \in BeforeInsert
         /\ repeat_transaction_watch[Set(p).migration_id] = Some(migration[p])) =>
            Warnings(p) = << RepeatWarning(p) >>

\* C9: a conflicting identity is a soft check.  When the last_applied entry
\* for the id of a call's set is a different set object, the call logs the
\* conflict warning naming both sets and goes on: it reads as its start
\* version whatever version is stored for the id, and no call returns
\* without having tried to open its transaction unless connecting or
\* creating the tracking tables failed.
C9_ConflictIsSoft ==
    \A p \in Procs :
        /\ \A other \in MigrationRefs \ {migration[p]} :
              (/\ pc[p] \in BeforeInsert
               /\ repeat_transaction_watch[Set(p).migration_id] = Some(other)) =>
                  /\ Len(Warnings(p)) = 1
                  /\ IsConflictWarning(Warnings(p)[1], p, other)
                  /\ Queried(p) => start_version[p] = Stored(db, p)
        /\ (pc[p] = "return" /\ Issued(p, "transaction_with_type") = {}) =>
              /\ result[p] \in {DriverError("connect"), DriverError("execute_batch")}
              /\ result[p] = DriverError("execute_batch") =>
                    ~ops[p][Len(ops[p])].ok

\* C9 witness: after ALPHA was applied, the different object ALPHA_NEXT with
\* the same id runs only its script from the stored version 2 and is about
\* to commit.
C9_Witness ==
    \E p \in Procs :
        /\ pc[p] = "commit"
        /\ migration[p] = "ALPHA_NEXT"
        /\ repeat_transaction_watch["a"] = Some("ALPHA")
        /\ start_version[p] = 2
        /\ current_version[p] = 3
        /\ Len(ScriptOps(p)) = 2

\* C10 as claimed: the error value a call returns for a version mismatch
\* carries the set's display name, the target version and the version
\* reached.
C10_MismatchErrorCarriesDetails ==
    \A p \in Procs :
        (pc[p] = "return" /\ WalkDone(p) /\ current_version[p] # Set(p).target_version) =>
            /\ result[p].kind = "bail"
            /\ InSeq(Set(p).migration_set_name, result[p].strs)
            /\ InSeq(Set(p).target_version, result[p].nums)
            /\ InSeq(current_version[p], result[p].nums)

\* C10 amended: the version-mismatch outcome is an explicitly constructed
\* error value, distinct from the errors of the connection, that carries
\* only a fixed message; the set's display name, the target version, the
\* start version and the version reached are reported in the error-level
\* log record the call emits last, before it returns the error.
C10_MismatchErrorIsDistinct ==
    \A p \in Procs :
        (pc[p] = "return" /\ WalkDone(p) /\ current_version[p] # Set(p).target_version) =>
            /\ result[p] = Bail("Could not successfully apply migration.", <<>>, <<>>)
            /\ \A op \in {"connect", "execute_batch", "transaction_with_type",
                          "query_row", "execute", "commit"} : result[p] # DriverError(op)
            /\ log[p] # <<>>
            /\ LET rec == log[p][Len(log[p])] IN
                  /\ rec.level = "error"
                  /\ rec.strs = <<Set(p).migration_set_name>>
                  /\ rec.nums = <<Set(p).target_version, Stored(db_at_begin[p], p),
                                  current_version[p]>>

\* C10 witness: a call that started at version 0 and reached version 1 of
\* target 3 has returned the mismatch error.
C10_Witness ==
    \E p \in Procs :
        /\ pc[p] = "return"
        /\ migration[p] = "BETA_GAP"
        /\ result[p].kind = "bail"
        /\ start_version[p] = 0
        /\ current_version[p] = 1

\* C11: exclusive transaction.  While a call's transaction is open no write
\* of another writer takes effect: the keyed-storage value does not change,
\* and the committed database changes only by the commit of the call that
\* owns the transaction, which publishes exactly that transaction's view.
C11_ExclusiveTransaction ==
    [][tx_owner # NoProc =>
          /\ kv' = kv
          /\ db' # db => (pc[tx_owner] = "commit" /\ db' = tx_view)]_vars

\* C11 witness: a foreign write took effect earlier, and now a call has its
\* transaction open, has executed a script, and the foreign writer is kept
\* out.
C11_Witness ==
    \E p \in Procs :
        /\ tx_owner = p
        /\ pc[p] = "execute"
        /\ kv = "set"
        /\ ~ENABLED ForeignWrite

\* C12: cancellation is rollback.  When a call whose transaction is open is
\* cancelled at a suspension point, the transaction is gone, the committed
\* database is what it was when the transaction opened (stored versions and
\* script effects alike), and the lock is released.
C12_CancellationIsRollback ==
    [][\A p \in Procs :
          (tx_owner = p /\ pc[p] \in Suspended /\ pc'[p] = "idle") =>
              /\ db' = db_at_begin[p]
              /\ tx_owner' = NoProc
              /\ tx_view' = db'
              /\ lock' # p]_vars

\* C12 witness: a call that has run its scripts inside its transaction and
\* is suspended in commit can be cancelled.
C12_Witness ==
    \E p \in Procs :
        /\ tx_owner = p
        /\ pc[p] = "commit"
        /\ Stored(tx_view, p) # Stored(db, p)
        /\ tx_view.schema # db.schema
        /\ ENABLED Cancel(p)

\* C13 as stated: every id executed in a scope has a row there.  Read in
\* the weakest way, for a call that has applied at least one script.
C13_RowForEveryExecutedId ==
    \A p \in Procs :
        (pc[p] = "return" /\ Succeeded(p, "execute_batch")) =>
            db.rows[OwnTable(p)][Set(p).migration_id] # None

\* A call of task p creating or replacing the row (t, i) by committing.
CommitsRow(p, t, i) ==
    /\ pc[p] = "commit"
    /\ pc'[p] = "return"
    /\ result'[p] = Ok
    /\ OwnTable(p) = t
    /\ Set(p).migration_id = i
    /\ ScriptOps(p) # <<>>

\* C13, amended: a tracking table holds at most one row per id (the rows
\* are keyed by migration_name); the row of an id exists once a call for it
\* in that scope has applied a script and committed, it comes into
\* existence only by such a commit, and it is never deleted.
C13_RowPerCommittedId ==
    /\ [](\A p \in Procs :
            (pc[p] = "return" /\ result[p] = Ok /\ ScriptOps(p) # <<>>) =>
                db.rows[OwnTable(p)][Set(p).migration_id] # None)
    /\ [][\A t \in Tables, i \in Ids :
            /\ db.rows[t][i] # None => db'.rows[t][i] # None
            /\ (db.rows[t][i] = None /\ db'.rows[t][i] # None) =>
                   \E p \in Procs : CommitsRow(p, t, i)]_vars

\* C13 witness: a first migration has committed and created its row.
C13_Witness ==
    \E p \in Procs :
        /\ pc[p] = "return"
        /\ result[p] = Ok
        /\ ScriptOps(p) # <<>>
        /\ db_at_begin[p].rows[OwnTable(p)][Set(p).migration_id] = None
        /\ db.rows[OwnTable(p)][Set(p).migration_id] # None

\* C14: last_applied (repeat_transaction_watch) is updated only on successful
\* commit.  A call that has returned Ok has its set as the entry of its id;
\* the watch changes only in the step in which a call's commit succeeds, and
\* then only in the entry of that call's id; so every other way out of a call
\* leaves it as it was, and an entry exists only for an id some call committed.
C14_WatchOnlyOnCommit ==
    /\ [](\A p \in Procs :
            (pc[p] = "return" /\ result[p] = Ok) =>
                repeat_transaction_watch[Set(p).migration_id] = Some(migration[p]))
    /\ [][repeat_transaction_watch' # repeat_transaction_watch =>
            \E p \in Procs :
                /\ pc[p] = "commit"
                /\ pc'[p] = "return"
                /\ result'[p] = Ok
                /\ db' = tx_view
                /\ repeat_transaction_watch' =
                      [repeat_transaction_watch EXCEPT
                          ![Set(p).migration_id] = Some(migration[p])]]_vars
    /\ [][\A p \in Procs :
            (pc[p] # "return" /\ pc'[p] = "return" /\ result'[p] # Ok) =>
                repeat_transaction_watch' = repeat_transaction_watch]_vars

\* C14 witness: a call has committed and replaced the entry an earlier call
\* with another set object had left for the same id.
C14_Witness ==
    \E p \in Procs :
        /\ pc[p] = "return"
        /\ result[p] = Ok
        /\ migration[p] = "ALPHA_NEXT"
        /\ \E i \in DOMAIN log[p] : IsConflictWarning(log[p][i], p, "ALPHA")
        /\ repeat_transaction_watch["a"] = Some("ALPHA_NEXT")

\* Task p issues a creation statement in this step.
IssuesCreate(p) ==
    /\ Len(ops'[p]) = Len(ops[p]) + 1
    /\ ops'[p][Len(ops'[p])].op = "create"

\* Both creation statements are among those task p will have issued after
\* this step, and both succeeded.
CreatedBoth(p) ==
    \A t \in Tables :
        \E i \in DOMAIN ops'[p] :
            ops'[p][i].op = "create" /\ ops'[p][i].target = t /\ ops'[p][i].ok

\* C15: lazy tracking-table creation.  A call reads or writes a tracking
\* table, and opens its transaction, only when both tables exist and the
\* flag is set; creation statements are issued with the lock held and come
\* before the transaction in the call's statements; tables_created becomes
\* true only in the step that completes both creations, never reverts, and
\* while it is true no creation statement is issued.
C15_LazyTableCreation ==
    /\ [](tables_created => \A t \in Tables : db.exists[t])
    /\ [](\A p \in Procs :
            /\ pc[p] \in BeforeInsert => tables_created
            /\ (Issued(p, "transaction_with_type") \cup Issued(p, "query_row")
                    \cup Issued(p, "execute")) # {} => tables_created
            /\ pc[p] \in {"create_persistent", "create_transient"} => lock = p
            /\ \A i \in Issued(p, "create"), j \in Issued(p, "transaction_with_type") :
                  i < j)
    /\ [][/\ tables_created => tables_created'
          /\ (~tables_created /\ tables_created') =>
                 \E p \in Procs : pc[p] = "create_transient" /\ lock = p /\ CreatedBoth(p)
          /\ \A p \in Procs :
                 IssuesCreate(p) => (~tables_created /\ lock = p /\ tx_owner = NoProc)]_vars

\* C15 witness: the first creation succeeded and the second failed in an
\* earlier call, the flag stayed false, and the next call is creating again.
C15_Witness ==
    \E p \in Procs :
        /\ pc[p] = "create_transient"
        /\ ~tables_created
        /\ Cardinality(Issued(p, "create")) = 1
        /\ db.exists["sylphie_db_migrations_tracking"]
        /\ ~db.exists["transient.sylphie_db_migrations_tracking"]
        /\ faults > 0

\* The position of the first script of m whose `from` is cur, 0 if none.
FirstMatch(m, cur) ==
    LET matches == {j \in 1..Len(m.scripts) : m.scripts[j].from = cur}
    IN IF matches = {} THEN 0
       ELSE CHOOSE j \in matches : \A k \in matches : j <= k

\* Repeated selection (spec section 3): select the first script whose `from`
\* is the current version and advance to its `to`, until no script matches.
\* None when the selection has not halted after fuel rounds.
RECURSIVE Resolve(_, _, _)
Resolve(m, cur, fuel) ==
    IF fuel = 0 THEN None
    ELSE IF FirstMatch(m, cur) = 0 THEN Some(cur)
    ELSE Resolve(m, m.scripts[FirstMatch(m, cur)].to, fuel - 1)

\* More rounds than m has scripts select some script twice, hence for ever.
Resolution(m, cur) == Resolve(m, cur, Len(m.scripts) + 1)

\* The scripts of m are declared in chain order: a script that continues
\* from another's `to` is declared after it.
ChainOrdered(m) ==
    \A i, j \in 1..Len(m.scripts) :
        m.scripts[i].to = m.scripts[j].from => i < j

\* C16 as stated: for every set and starting version the walk halts at the
\* version repeated selection reaches, one that no script of the set matches.
C16_WalkIsRepeatedSelection ==
    \A p \in Procs :
        WalkDone(p) =>
            /\ Resolution(Set(p), start_version[p]) = Some(current_version[p])
            /\ FirstMatch(Set(p), current_version[p]) = 0

\* C16, amended: for every set whose scripts are declared in chain order
\* and every stored starting version, the walk halts at the version that
\* repeated first-match selection reaches, which no script of the set matches.
C16_ChainResolution ==
    \A p \in Procs :
        (WalkDone(p) /\ ChainOrdered(Set(p))) =>
            /\ Resolution(Set(p), start_version[p]) = Some(current_version[p])
            /\ FirstMatch(Set(p), current_version[p]) = 0

\* C16 witness: a walk over a set in chain order has skipped the scripts
\* below the stored version, run the one that matched, and halted.
C16_Witness ==
    \E p \in Procs :
        /\ pc[p] = "check_version"
        /\ WalkDone(p)
        /\ migration[p] = "ALPHA_NEXT"
        /\ start_version[p] = 2
        /\ current_version[p] = 3

\* The tracking version in force after the statements of seq, from start.
VersionAfter(seq, start) ==
    LET w == SelectSeq(seq, LAMBDA o : o.op = "execute" /\ o.ok)
    IN IF w = <<>> THEN start ELSE w[Len(w)].ver

\* What a call of task p does once its transaction is open, as a function of
\* its set, the database at that moment and the operation that failed, if
\* any; repeat_transaction_watch is no argument of it.
FromSetAndDatabase(p) ==
    LET start == Stored(db_at_begin[p], p)
        expected == ExpectedOps(Set(p), OwnTable(p), 1, start)
        issued == ScriptOps(p)
        failed == \E i \in DOMAIN ops[p] : ~ops[p][i].ok
    IN
    /\ Len(issued) <= Len(expected)
    /\ \A i \in DOMAIN issued :
          /\ [issued[i] EXCEPT !.ok = TRUE] = expected[i]
          /\ ~issued[i].ok => i = Len(issued)
    /\ pc[p] = "return" =>
          /\ failed => result[p] = DriverError(ops[p][Len(ops[p])].op)
          /\ ~failed =>
                /\ issued = expected
                /\ result[p] =
                      IF VersionAfter(expected, start) = Set(p).target_version
                         THEN Ok
                         ELSE Bail("Could not successfully apply migration.", <<>>, <<>>)
          /\ Stored(db, p) =
                IF result[p] = Ok THEN VersionAfter(expected, start) ELSE start

\* C17: last_applied is used purely for conflict detection.  The scripts a
\* call executes, the tracking versions it writes and the result it returns
\* are determined by its set, the database its transaction found and the
\* operation that failed, whatever last_applied holds; two manager states
\* that differ only there therefore give the same run but for the warning.
C17_WatchOnlyWarns ==
    \A p \in Procs : Began(p) => FromSetAndDatabase(p)

\* C17 witness: last_applied holds, for the id of the call's set, another
\* set whose target is 1; the call has walked from the stored version 0 of
\* its own scope to its target 2 all the same, having logged the warning.
C17_Witness ==
    \E p \in Procs :
        /\ pc[p] = "commit"
        /\ migration[p] = "ALPHA"
        /\ repeat_transaction_watch["a"] = Some("ALPHA_TRANSIENT")
        /\ Warnings(p) # <<>>
        /\ start_version[p] = 0
        /\ current_version[p] = 2

\* The positions in the scripts of m of the script bodies executed by the
\* execute_batch statements of seq, in the order of execution.
RECURSIVE BatchPositions(_, _)
BatchPositions(m, seq) ==
    IF seq = <<>> THEN <<>>
    ELSE LET rest == BatchPositions(m, Tail(seq)) IN
         IF Head(seq).op = "execute_batch"
            THEN << CHOOSE j \in 1..Len(m.scripts) :
                        m.scripts[j].script_data = Head(seq).target >> \o rest
            ELSE rest

\* C18: single forward pass.  Within one call the script bodies are executed
\* at strictly increasing positions of the set's script list, none beyond
\* the position the loop is at; so no body is executed twice, and there are
\* at most len(scripts) executions, whatever the from/to pairs are.
C18_SingleForwardPass ==
    \A p \in Procs :
        LET m == Set(p)
            at == BatchPositions(m, ops[p])
        IN
        /\ script_i[p] \in 1..(Len(m.scripts) + 1)
        /\ \A i, j \in DOMAIN at : i < j => at[i] < at[j]
        /\ \A i \in DOMAIN at : at[i] <= script_i[p]
        /\ pc[p] = "for_script" => \A i \in DOMAIN at : at[i] < script_i[p]
        /\ Len(at) <= Len(m.scripts)

\* C18 witness: a set whose scripts form a cycle, (2->0), (0->1), (1->2),
\* run from its target 2: all three scripts have run, once each, and the
\* walk is over.
C18_Witness ==
    \E p \in Procs :
        /\ pc[p] = "check_version"
        /\ migration[p] = "BETA_CYCLE"
        /\ start_version[p] = 2
        /\ current_version[p] = 2
        /\ Cardinality(Issued(p, "execute_batch")) = 3

\* C19: with operations that return and a fair mutex, every call that is
\* not cancelled returns Ok or Err; every call that has returned, on
\* whatever exit path, has released the lock and its connection; so a task
\* waiting for the lock gets it, and a task waiting for a connection while
\* another holds one and the lock gets one: no deadlock.
C19_CallsReturnAndUnlock ==
    \A p \in Procs :
        /\ (pc[p] \notin {"idle", "return"}) ~>
               \/ pc[p] = "return" /\ result[p].kind \in {"Ok", "driver", "bail"}
               \/ pc[p] = "idle"
        /\ (pc[p] = "return") ~> (pc[p] = "idle" /\ lock # p /\ ~connection[p])
        /\ (pc[p] = "lock") ~> (lock = p \/ pc[p] = "idle")
        /\ (pc[p] = "connect") ~> (connection[p] \/ pc[p] \in {"return", "idle"})
        /\ [](pc[p] = "idle" => (lock # p /\ ~connection[p]))

\* C19 witness: after an earlier call has left by an error or a
\* cancellation, a later call holds the only connection of the pool and has
\* entered the critical section.
C19_Witness ==
    \E p \in Procs :
        /\ lock = p
        /\ pc[p] = "begin"
        /\ connection[p]
        /\ pool_size = 1
        /\ calls = 2
        /\ faults > 0
        /\ \A i \in DOMAIN ops[p] : ops[p][i].ok
        /\ \A q \in Procs \ {p} : pc[q] = "idle"

\* C20: the only tracking row a call writes is the one keyed by the
\* migration_id of its set, in its scope.  From the moment its transaction
\* opens, every tracking write it issues carries its own id, and the row of
\* every other id, in both scopes, is the same in its transaction and in the
\* committed database as it was when the transaction opened, whether the
\* call goes on to succeed or to fail.
C20_OtherIdsUntouched ==
    \A p \in Procs :
        Began(p) =>
            /\ \A i \in Issued(p, "execute") : ops[p][i].id = Set(p).migration_id
            /\ \A t \in Tables, B \in Ids \ {Set(p).migration_id} :
                  /\ db.rows[t][B] = db_at_begin[p].rows[t][B]
                  /\ tx_owner = p => tx_view.rows[t][B] = db_at_begin[p].rows[t][B]

\* C20 witness: a set with id "b" has been applied and committed while id
\* "a" is stored at version 2, and is still.
C20_Witness ==
    \E p \in Procs :
        /\ pc[p] = "return"
        /\ result[p] = Ok
        /\ migration[p] = "BETA_CYCLE"
        /\ db.rows["sylphie_db_migrations_tracking"]["b"] = Some(2)
        /\ db_at_begin[p].rows["sylphie_db_migrations_tracking"]["a"] = Some(2)
        /\ db.rows["sylphie_db_migrations_tracking"]["a"] = Some(2)

====
